---- MODULE Spec2Model ----
(***************************************************************************)
(* GST reconciliation tool (streamlit.py): the exact-key reconciliation    *)
(* join (reconcile_data), the fuzzy name canonicalisation (get_best_match) *)
(* and the per-party aggregation and diff (create_pivot_summary), in the   *)
(* order app() runs them on the two uploaded tables.                       *)
(*                                                                         *)
(* A table (pandas DataFrame) is a sequence of rows; a row is a function   *)
(* from column names to cell values.  The result of drop_duplicates, and   *)
(* the result of a merge on a unique key, hold no two equal rows, and row  *)
(* order is no part of any property here, so both are sets of rows.        *)
(***************************************************************************)
EXTENDS Integers, Sequences, FiniteSets, TLC

\* A missing cell of a text column (pandas NaN, what read_csv gives for an
\* empty cell and what an outer merge gives for the absent side).
NaN == "NaN"

\* A cell of a numeric column of the pivot: <<v>> holds v, <<>> is NaN.
NaNCell == <<>>

\* What process.extractOne returns for an empty list of choices.
None == <<>>

-----------------------------------------------------------------------------
(* Bounds *)

\* The largest number of rows of each uploaded table.
MaxRows == 2

\* The largest number of reference names handed to get_best_match on its own.
MaxChoices == 2

-----------------------------------------------------------------------------
(* Column names *)

primary_keys == <<"Invoice_Number", "Tax_Rate", "Taxable_Amount", "CGST", "SGST", "IGST">>

additional_keys == <<"Party_Name", "GSTIN", "Invoice_Date">>

final_columns_order == additional_keys \o primary_keys \o <<"_merge">>

TaxColumns == <<"Taxable_Amount", "CGST", "SGST", "IGST">>

merge_labels == [both |-> "Matched", left_only |-> "Not in GSTR2A", right_only |-> "Not in Books"]

Range(s) == {s[i] : i \in DOMAIN s}

\* The name pandas gives the right-hand copy of an overlapping column.
FromGstr2a(key) ==
    CASE key = "Party_Name" -> "Party_Name_from_gstr2a"
      [] key = "GSTIN" -> "GSTIN_from_gstr2a"
      [] key = "Invoice_Date" -> "Invoice_Date_from_gstr2a"

-----------------------------------------------------------------------------
(* Input values *)

\* The identity keys (the six primary_keys fields) the uploaded rows draw from.
IdentityKeys ==
    { [Invoice_Number |-> "A1", Tax_Rate |-> 18, Taxable_Amount |-> 1000,
       CGST |-> 90, SGST |-> 80, IGST |-> 0],
      [Invoice_Number |-> "A2", Tax_Rate |-> 18, Taxable_Amount |-> 2000,
       CGST |-> 0, SGST |-> 10, IGST |-> 360] }

\* The descriptive fields (additional_keys) the uploaded rows draw from; an
\* empty CSV cell is NaN.
Descriptions ==
    { [Party_Name |-> "Acme Corp", GSTIN |-> "G1", Invoice_Date |-> "2024-01-01"],
      [Party_Name |-> "ACME CORPORATION", GSTIN |-> NaN, Invoice_Date |-> "2024-01-02"],
      [Party_Name |-> NaN, GSTIN |-> "G2", Invoice_Date |-> NaN] }

\* The rows of the uploaded tables: the first invoice under every description,
\* the second under one party name and under the description without a name.
Rows ==
    {row \in {k @@ d : k \in IdentityKeys, d \in Descriptions} :
        row.Invoice_Number = "A1" \/ row.Party_Name # "ACME CORPORATION"}

SeqsUpTo(S, n) == UNION {[1..k -> S] : k \in 0..n}

\* The tables load_data can return.
Tables == SeqsUpTo(Rows, MaxRows)

\* The party names that are text.
PartyNames == {d.Party_Name : d \in Descriptions} \ {NaN}

-----------------------------------------------------------------------------
(* reconcile_data *)

KeyOf(row) == [k \in Range(primary_keys) |-> row[k]]

\* how='left' in place of how='outer': the keys of the right side alone are lost.
OuterMergePairs_left(left, right) ==
    {p \in (DOMAIN left) \X (DOMAIN right) : KeyOf(left[p[1]]) = KeyOf(right[p[2]])}
    \cup {<<i, 0>> : i \in {i \in DOMAIN left :
                              \A j \in DOMAIN right : KeyOf(left[i]) # KeyOf(right[j])}}

\* pd.merge(left, right, on=primary_keys, how='outer'): the pairs of row
\* numbers it joins; 0 stands for the side that has no row with the key.
\* Rows of the two sides that share a key are joined pairwise (every left row
\* with every right row).
OuterMergePairs(left, right) ==
    {p \in (DOMAIN left) \X (DOMAIN right) : KeyOf(left[p[1]]) = KeyOf(right[p[2]])}
    \cup {<<i, 0>> : i \in {i \in DOMAIN left :
                              \A j \in DOMAIN right : KeyOf(left[i]) # KeyOf(right[j])}}
    \cup {<<0, j>> : j \in {j \in DOMAIN right :
                              \A i \in DOMAIN left : KeyOf(left[i]) # KeyOf(right[j])}}

\* The two one-sided indicators exchanged.
Indicator_swapped(p) ==
    IF p[1] # 0 /\ p[2] # 0 THEN "both"
    ELSE IF p[1] # 0 THEN "right_only"
    ELSE "left_only"

\* indicator=True: the _merge cell of a joined pair.
Indicator(p) ==
    IF p[1] # 0 /\ p[2] # 0 THEN "both"
    ELSE IF p[1] # 0 THEN "left_only"
    ELSE "right_only"

\* The row the merge builds for a joined pair: the key, the left side's
\* descriptive cells under their own names, the right side's under the
\* suffix _from_gstr2a, NaN for an absent side, and _merge.
MergedRow(left, right, p) ==
    LET key == IF p[1] # 0 THEN KeyOf(left[p[1]]) ELSE KeyOf(right[p[2]])
        own == [c \in Range(additional_keys) |->
                    IF p[1] # 0 THEN left[p[1]][c] ELSE NaN]
        other == [c \in {FromGstr2a(k) : k \in Range(additional_keys)} |->
                    LET k == CHOOSE k \in Range(additional_keys) : FromGstr2a(k) = c
                    IN  IF p[2] # 0 THEN right[p[2]][k] ELSE NaN]
    IN  key @@ own @@ other @@ [_merge |-> Indicator(p)]

\* The fill taken the other way round: the other cell wins where it is present.
fillna_other_first(cell, other) == IF other = NaN THEN cell ELSE other

\* Series.fillna(other): the cell, or the other cell where it is NaN.
fillna(cell, other) == IF cell = NaN THEN other ELSE cell

\* The loop over additional_keys: fill the left cell from the _from_gstr2a
\* cell and drop the _from_gstr2a column.  Both tables carry every column of
\* additional_keys, so the merge makes all three _from_gstr2a columns and the
\* test for the column never fails.
FillAndDrop(row) ==
    [c \in (DOMAIN row) \ {FromGstr2a(k) : k \in Range(additional_keys)} |->
        IF c \in Range(additional_keys)
        THEN fillna(row[c], row[FromGstr2a(c)])
        ELSE row[c]]

reconcile_data(purchase_data_, gstr2a_data_) ==
    LET pairs == OuterMergePairs(purchase_data_, gstr2a_data_)
        reconciliation == [p \in pairs |-> MergedRow(purchase_data_, gstr2a_data_, p)]
        labelled == [p \in pairs |->
                        [reconciliation[p] EXCEPT !["_merge"] = merge_labels[@]]]
        filled == [p \in pairs |-> FillAndDrop(labelled[p])]
    IN  \* the projection on final_columns_order, then drop_duplicates
        {[c \in Range(final_columns_order) |-> filled[p][c]] : p \in pairs}

-----------------------------------------------------------------------------
(* get_best_match *)

\* The default cutoff of get_best_match.
DefaultCutoff == 75

\* The scorer is a parameter of get_best_match (fuzz.partial_ratio by default):
\* a function from (name, choice) to a score in 0..100.  The two values below
\* are the default cutoff and the least score over it; the cutoffs tried put
\* a score under, at and over the cutoff.
ScoreValues == {DefaultCutoff, DefaultCutoff + 1}

Scorers == [PartyNames \X PartyNames -> ScoreValues]

Cutoffs == {DefaultCutoff - 1, DefaultCutoff, DefaultCutoff + 1}

\* process.extractOne(name, choices, scorer=scorer): None for no choices, else
\* the pair (choice, score) of the highest score; max() keeps the first of
\* several choices with the highest score.
extractOne(name, choices, scorer) ==
    IF choices = <<>> THEN None
    ELSE LET score(i) == scorer[<<name, choices[i]>>]
             best == CHOOSE i \in DOMAIN choices :
                        /\ \A j \in DOMAIN choices : score(j) <= score(i)
                        /\ \A j \in 1..(i - 1) : score(j) < score(i)
         IN  <<choices[best], score(best)>>

\* >= in place of >: a score equal to the cutoff counts as a match.
get_best_match_at_cutoff(name, choices, scorer, cutoff) ==
    LET best_match == extractOne(name, choices, scorer)
    IN  IF best_match # None /\ best_match[2] >= cutoff THEN best_match[1] ELSE name

get_best_match(name, choices, scorer, cutoff) ==
    LET best_match == extractOne(name, choices, scorer)
    IN  IF best_match # None /\ best_match[2] > cutoff THEN best_match[1] ELSE name

\* extractOne runs the string processor on the name and on every choice once
\* the list of choices is not empty; the processor raises TypeError on a NaN
\* cell, which is a float and no string.
extractOneRaises(name, choices) ==
    choices # <<>> /\ (name = NaN \/ NaN \in Range(choices))

-----------------------------------------------------------------------------
(* create_pivot_summary *)

RECURSIVE SumOver(_, _, _)
\* The sum of column col over the rows of df numbered in idx.
SumOver(df, idx, col) ==
    IF idx = {} THEN 0
    ELSE LET i == CHOOSE i \in idx : TRUE
         IN  df[i][col] + SumOver(df, idx \ {i}, col)

\* df.groupby('Party_Name')[TaxColumns].sum().reset_index(): one row per
\* party name of df; groupby leaves out the rows whose key is NaN.
groupby_sum(df) ==
    {[Party_Name |-> n] @@
     [c \in Range(TaxColumns) |->
        SumOver(df, {i \in DOMAIN df : df[i].Party_Name = n}, c)] :
     n \in {df[i].Party_Name : i \in DOMAIN df} \ {NaN}}

\* Series.fillna(0) on a numeric cell.
fillna0(cell) == IF cell = NaNCell THEN 0 ELSE cell[1]

\* how='left' in place of how='outer': the parties of the return alone are lost.
OuterMergeOnParty_left(book_aggregate, gstr2a_aggregate) ==
    LET cells(agg) == [c \in Range(TaxColumns) |-> <<agg[c]>>]
        absent == [c \in Range(TaxColumns) |-> NaNCell]
        names(aggregate) == {a.Party_Name : a \in aggregate}
    IN  {[Party_Name |-> b.Party_Name, books |-> cells(b), gstr2a |-> cells(g)] :
            <<b, g>> \in {q \in book_aggregate \X gstr2a_aggregate :
                            q[1].Party_Name = q[2].Party_Name}}
        \cup {[Party_Name |-> b.Party_Name, books |-> cells(b), gstr2a |-> absent] :
            b \in {b \in book_aggregate : b.Party_Name \notin names(gstr2a_aggregate)}}

\* pd.merge(book_aggregate, gstr2a_aggregate, on='Party_Name', how='outer',
\* suffixes=('_books', '_gstr2a')): the columns c_books and c_gstr2a of a row
\* are its cells books[c] and gstr2a[c]; the side that has no row for the
\* party is NaN.
OuterMergeOnParty(book_aggregate, gstr2a_aggregate) ==
    LET cells(agg) == [c \in Range(TaxColumns) |-> <<agg[c]>>]
        absent == [c \in Range(TaxColumns) |-> NaNCell]
        names(aggregate) == {a.Party_Name : a \in aggregate}
    IN  {[Party_Name |-> b.Party_Name, books |-> cells(b), gstr2a |-> cells(g)] :
            <<b, g>> \in {q \in book_aggregate \X gstr2a_aggregate :
                            q[1].Party_Name = q[2].Party_Name}}
        \cup {[Party_Name |-> b.Party_Name, books |-> cells(b), gstr2a |-> absent] :
            b \in {b \in book_aggregate : b.Party_Name \notin names(gstr2a_aggregate)}}
        \cup {[Party_Name |-> g.Party_Name, books |-> absent, gstr2a |-> cells(g)] :
            g \in {g \in gstr2a_aggregate : g.Party_Name \notin names(book_aggregate)}}

\* The difference taken the other way round (return minus book).
WithDiff_reversed(row) ==
    [Party_Name |-> row.Party_Name, books |-> row.books, gstr2a |-> row.gstr2a,
     diff |-> [c \in Range(TaxColumns) |-> fillna0(row.gstr2a[c]) - fillna0(row.books[c])]]

\* The loop that adds the column c_diff (the cell diff[c]) for every tax column.
WithDiff(row) ==
    [Party_Name |-> row.Party_Name, books |-> row.books, gstr2a |-> row.gstr2a,
     diff |-> [c \in Range(TaxColumns) |-> fillna0(row.books[c]) - fillna0(row.gstr2a[c])]]

\* The assignment purchase_data['Party_Name'] = ...apply(get_best_match, ...)
\* writes into the caller's DataFrame.
Canonicalized(purchase_data_, gstr2a_parties, scorer) ==
    [i \in DOMAIN purchase_data_ |->
        [purchase_data_[i] EXCEPT
            !.Party_Name = get_best_match(@, gstr2a_parties, scorer, DefaultCutoff)]]

\* create_pivot_summary raises when one of its calls of get_best_match does.
create_pivot_summary_raises(purchase_data_, gstr2a_data_) ==
    LET gstr2a_parties == [j \in DOMAIN gstr2a_data_ |-> gstr2a_data_[j].Party_Name]
    IN  \E i \in DOMAIN purchase_data_ :
            extractOneRaises(purchase_data_[i].Party_Name, gstr2a_parties)

\* The result of create_pivot_summary: the comparison it returns, and the
\* purchase DataFrame of the caller as the call leaves it.
create_pivot_summary(purchase_data_, gstr2a_data_, scorer) ==
    LET gstr2a_parties == [j \in DOMAIN gstr2a_data_ |-> gstr2a_data_[j].Party_Name]
        canonical == Canonicalized(purchase_data_, gstr2a_parties, scorer)
        book_aggregate == groupby_sum(canonical)
        gstr2a_aggregate == groupby_sum(gstr2a_data_)
        comparison == OuterMergeOnParty(book_aggregate, gstr2a_aggregate)
    IN  [purchase_data |-> canonical,
         comparison |-> {WithDiff(row) : row \in comparison}]

-----------------------------------------------------------------------------
(* State *)

VARIABLES
    pc,                     \* where app(), or the call of get_best_match, is
    uploaded_file_purchase, \* the purchase table as uploaded
    uploaded_file_gsmart,   \* the GSTR-2A table as uploaded
    purchase_data,          \* app()'s purchase DataFrame
    gsmart_data,            \* app()'s GSTR-2A DataFrame
    reconciliation_data,    \* the result of reconcile_data
    pivot_summary,          \* the result of create_pivot_summary
    error,                  \* the exception app() ended with, or "none"
    call                    \* a call of get_best_match: its arguments and result

vars == <<pc, uploaded_file_purchase, uploaded_file_gsmart, purchase_data,
          gsmart_data, reconciliation_data, pivot_summary, error, call>>

NoCall == [name |-> NaN, choices |-> <<>>, scorer |-> <<>>, cutoff |-> DefaultCutoff,
           result |-> NaN]

Init ==
    /\ pc = "upload"
    /\ uploaded_file_purchase = <<>>
    /\ uploaded_file_gsmart = <<>>
    /\ purchase_data = <<>>
    /\ gsmart_data = <<>>
    /\ reconciliation_data = {}
    /\ pivot_summary = {}
    /\ error = "none"
    /\ call = NoCall

\* app(): both files are uploaded and load_data reads them.
LoadData ==
    /\ pc = "upload"
    /\ \E book \in Tables, ret \in Tables :
        /\ uploaded_file_purchase' = book
        /\ uploaded_file_gsmart' = ret
        /\ purchase_data' = book
        /\ gsmart_data' = ret
    /\ pc' = "loaded"
    /\ UNCHANGED <<reconciliation_data, pivot_summary, error, call>>

\* The two calls of app() in the other order: the reconciliation runs on the
\* purchase DataFrame create_pivot_summary has already written into.
ReconcileData_after_pivot ==
    /\ pc = "loaded"
    /\ \E scorer \in Scorers :
        LET canonical ==
                IF create_pivot_summary_raises(purchase_data, gsmart_data)
                THEN purchase_data
                ELSE create_pivot_summary(purchase_data, gsmart_data, scorer).purchase_data
        IN  reconciliation_data' = reconcile_data(canonical, gsmart_data)
    /\ pc' = "reconciled"
    /\ UNCHANGED <<uploaded_file_purchase, uploaded_file_gsmart, purchase_data,
                   gsmart_data, pivot_summary, error, call>>

\* app(): reconciliation_data = reconcile_data(purchase_data, gsmart_data)
ReconcileData ==
    /\ pc = "loaded"
    /\ reconciliation_data' = reconcile_data(purchase_data, gsmart_data)
    /\ pc' = "reconciled"
    /\ UNCHANGED <<uploaded_file_purchase, uploaded_file_gsmart, purchase_data,
                   gsmart_data, pivot_summary, error, call>>

\* app(): pivot_summary = create_pivot_summary(purchase_data, gsmart_data);
\* the scorer is fuzz.partial_ratio, any function of the two names here.
CreatePivotSummary ==
    /\ pc = "reconciled"
    /\ IF create_pivot_summary_raises(purchase_data, gsmart_data)
       THEN /\ pc' = "failed"
            /\ error' = "TypeError"
            /\ UNCHANGED <<purchase_data, pivot_summary>>
       ELSE /\ \E scorer \in Scorers :
                LET r == create_pivot_summary(purchase_data, gsmart_data, scorer)
                IN  /\ purchase_data' = r.purchase_data
                    /\ pivot_summary' = r.comparison
            /\ pc' = "done"
            /\ UNCHANGED error
    /\ UNCHANGED <<uploaded_file_purchase, uploaded_file_gsmart, gsmart_data,
                   reconciliation_data, call>>

Next == LoadData \/ ReconcileData \/ CreatePivotSummary

Spec == Init /\ [][Next]_vars

-----------------------------------------------------------------------------
(* get_best_match called on its own, for every name, list, scorer and cutoff *)

InitMatch ==
    /\ pc = "call"
    /\ uploaded_file_purchase = <<>>
    /\ uploaded_file_gsmart = <<>>
    /\ purchase_data = <<>>
    /\ gsmart_data = <<>>
    /\ reconciliation_data = {}
    /\ pivot_summary = {}
    /\ error = "none"
    /\ call \in [name : PartyNames, choices : SeqsUpTo(PartyNames, MaxChoices),
                 scorer : Scorers, cutoff : Cutoffs, result : {NaN}]

GetBestMatch ==
    /\ pc = "call"
    /\ call' = [call EXCEPT
                    !.result = get_best_match(call.name, call.choices, call.scorer,
                                              call.cutoff)]
    /\ pc' = "returned"
    /\ UNCHANGED <<uploaded_file_purchase, uploaded_file_gsmart, purchase_data,
                   gsmart_data, reconciliation_data, pivot_summary, error>>

NextMatch == GetBestMatch

SpecMatch == InitMatch /\ [][NextMatch]_vars

-----------------------------------------------------------------------------
(* Properties *)

\* The identity keys of the two uploaded tables.
BookKeys == {KeyOf(uploaded_file_purchase[i]) : i \in DOMAIN uploaded_file_purchase}

ReturnKeys == {KeyOf(uploaded_file_gsmart[j]) : j \in DOMAIN uploaded_file_gsmart}

\* reconcile_data has returned.
Reconciled == pc \in {"reconciled", "done", "failed"}

Statuses == {"Matched", "Not in GSTR2A", "Not in Books"}

RowsOfKey(k) == {row \in reconciliation_data : KeyOf(row) = k}

\* The descriptive cells of a side that has no row for a key.
AbsentSide == [f \in Range(additional_keys) |-> NaN]

\* Every descriptive field of row is the Book cell where that is present and
\* the Return cell otherwise.
ResolvedFrom(row, bookRow, returnRow) ==
    \A f \in Range(additional_keys) :
        row[f] = IF bookRow[f] # NaN THEN bookRow[f] ELSE returnRow[f]

RECURSIVE SumCells(_, _, _)
\* The sum of the cells side[c] over a set of pivot rows, NaN counted as 0.
SumCells(rows, side, c) ==
    IF rows = {} THEN 0
    ELSE LET row == CHOOSE row \in rows : TRUE
         IN  (IF row[side][c] = NaNCell THEN 0 ELSE row[side][c][1])
             + SumCells(rows \ {row}, side, c)

\* The sum of column c over the rows of a table that carry party name n.
PartySum(df, n, c) == SumOver(df, {i \in DOMAIN df : df[i].Party_Name = n}, c)

TextNames(df) == {df[i].Party_Name : i \in DOMAIN df} \ {NaN}

\* C1: once reconcile_data has returned, every identity key of Book or Return
\* is in exactly one reconciled row, and every key falls in exactly one of
\* the three status classes.
C1_Partition ==
    Reconciled =>
        \A k \in BookKeys \cup ReturnKeys :
            /\ Cardinality(RowsOfKey(k)) = 1
            /\ Cardinality({row["_merge"] : row \in RowsOfKey(k)}) = 1
            /\ \A row \in RowsOfKey(k) : row["_merge"] \in Statuses

\* C2: every reconciled row is Matched exactly when its key is in Book and in
\* Return, Not in GSTR2A exactly when it is in Book alone, Not in Books exactly
\* when it is in Return alone, and carries no other status.
C2_StatusClassification ==
    Reconciled =>
        \A row \in reconciliation_data :
            LET k == KeyOf(row)
            IN  /\ row["_merge"] \in Statuses
                /\ row["_merge"] = "Matched" <=> (k \in BookKeys /\ k \in ReturnKeys)
                /\ row["_merge"] = "Not in GSTR2A" <=> (k \in BookKeys /\ k \notin ReturnKeys)
                /\ row["_merge"] = "Not in Books" <=> (k \notin BookKeys /\ k \in ReturnKeys)

\* A Matched row and a row of the return alone, side by side.
C2_Witness ==
    /\ Reconciled
    /\ \E row \in reconciliation_data : row["_merge"] = "Matched"
    /\ \E row \in reconciliation_data : row["_merge"] = "Not in Books"

\* C3: every reconciled row carries, in each descriptive field, the Book
\* row's cell where that is present and the Return row's cell otherwise; and
\* every Book row, Return row and joined pair of them has such a row.
C3_Resolution ==
    Reconciled =>
        LET book == uploaded_file_purchase
            ret == uploaded_file_gsmart
        IN  /\ \A i \in DOMAIN book, j \in DOMAIN ret :
                    KeyOf(book[i]) = KeyOf(ret[j]) =>
                        \E row \in RowsOfKey(KeyOf(book[i])) :
                            ResolvedFrom(row, book[i], ret[j])
            /\ \A i \in DOMAIN book :
                    KeyOf(book[i]) \notin ReturnKeys =>
                        \E row \in RowsOfKey(KeyOf(book[i])) :
                            ResolvedFrom(row, book[i], AbsentSide)
            /\ \A j \in DOMAIN ret :
                    KeyOf(ret[j]) \notin BookKeys =>
                        \E row \in RowsOfKey(KeyOf(ret[j])) :
                            ResolvedFrom(row, AbsentSide, ret[j])
            /\ \A row \in reconciliation_data :
                    \/ \E i \in DOMAIN book, j \in DOMAIN ret :
                            /\ KeyOf(book[i]) = KeyOf(row)
                            /\ KeyOf(ret[j]) = KeyOf(row)
                            /\ ResolvedFrom(row, book[i], ret[j])
                    \/ \E i \in DOMAIN book :
                            /\ KeyOf(book[i]) = KeyOf(row)
                            /\ KeyOf(row) \notin ReturnKeys
                            /\ ResolvedFrom(row, book[i], AbsentSide)
                    \/ \E j \in DOMAIN ret :
                            /\ KeyOf(ret[j]) = KeyOf(row)
                            /\ KeyOf(row) \notin BookKeys
                            /\ ResolvedFrom(row, AbsentSide, ret[j])

\* A Matched row whose Book and Return party names differ carries the Book
\* name, and takes its GSTIN, which Book leaves empty, from Return.
C3_Witness ==
    /\ Reconciled
    /\ \E i \in DOMAIN uploaded_file_purchase, j \in DOMAIN uploaded_file_gsmart :
        LET b == uploaded_file_purchase[i]
            r == uploaded_file_gsmart[j]
        IN  /\ KeyOf(b) = KeyOf(r)
            /\ b.Party_Name # NaN /\ r.Party_Name # NaN /\ b.Party_Name # r.Party_Name
            /\ b.GSTIN = NaN /\ r.GSTIN # NaN
            /\ \E row \in reconciliation_data :
                /\ row["_merge"] = "Matched"
                /\ row.Party_Name = b.Party_Name
                /\ row.GSTIN = r.GSTIN

\* The score of choice i in the call of get_best_match.
CallScore(i) == call.scorer[<<call.name, call.choices[i]>>]

\* Choice i has the highest score of the call.
CallBest(i) == \A j \in DOMAIN call.choices : CallScore(j) <= CallScore(i)

\* C4: get_best_match returns a highest-scoring choice when that score is
\* strictly over the cutoff, and the name unchanged in every other case: a
\* highest score at or under the cutoff, and an empty list.
C4_Threshold ==
    pc = "returned" =>
        IF \E i \in DOMAIN call.choices : CallBest(i) /\ CallScore(i) > call.cutoff
        THEN \E i \in DOMAIN call.choices : CallBest(i) /\ call.result = call.choices[i]
        ELSE call.result = call.name

\* The highest score equals the default cutoff, the highest-scoring choice is
\* another name, and the name comes back.
C4_Witness ==
    /\ pc = "returned"
    /\ call.cutoff = DefaultCutoff
    /\ \E i \in DOMAIN call.choices :
        CallBest(i) /\ CallScore(i) = call.cutoff /\ call.choices[i] # call.name
    /\ call.result = call.name

\* C5: for each tax column, the book-side sums of the pivot rows add up to
\* the sum of the column over all uploaded Book rows.
C5_Conservation ==
    pc = "done" =>
        \A c \in Range(TaxColumns) :
            SumCells(pivot_summary, "books", c)
                = SumOver(uploaded_file_purchase, DOMAIN uploaded_file_purchase, c)

\* C6: for every pivot row and tax column, diff is the sum over the
\* canonicalized Book rows of the party minus the sum over its Return rows, a
\* side without rows counting as zero; with an empty Return every diff is the
\* book sum.
C6_Diff ==
    pc = "done" =>
        \A row \in pivot_summary, c \in Range(TaxColumns) :
            LET bookSum == PartySum(purchase_data, row.Party_Name, c)
                returnSum == PartySum(gsmart_data, row.Party_Name, c)
            IN  /\ row.diff[c] = bookSum - returnSum
                /\ row.books[c] # NaNCell => row.books[c] = <<bookSum>>
                /\ row.gstr2a[c] # NaNCell => row.gstr2a[c] = <<returnSum>>
                /\ gsmart_data = <<>> => row.books[c] = <<row.diff[c]>>

\* A party of the return alone: its book side is absent and its diff is the
\* return sum, negated.
C6_Witness ==
    /\ pc = "done"
    /\ \E row \in pivot_summary :
        /\ row.books["Taxable_Amount"] = NaNCell
        /\ row.gstr2a["Taxable_Amount"] # NaNCell
        /\ row.diff["Taxable_Amount"] < 0

\* C7: the party names of the pivot rows are exactly the names of Return and
\* of Book after canonicalization, each on one row.
C7_PartyCoverage ==
    pc = "done" =>
        /\ {row.Party_Name : row \in pivot_summary}
                = TextNames(gsmart_data) \cup TextNames(purchase_data)
        /\ \A r1, r2 \in pivot_summary : r1.Party_Name = r2.Party_Name => r1 = r2

\* Canonicalization has rewritten a Book name to a Return name, and the pivot
\* has a row for a party of either side.
C7_Witness ==
    /\ pc = "done"
    /\ \E i \in DOMAIN purchase_data :
        purchase_data[i].Party_Name # uploaded_file_purchase[i].Party_Name
    /\ Cardinality(pivot_summary) = 2

\* C8: after reconcile_data and after create_pivot_summary, both DataFrames
\* hold what was loaded.
C8_Purity ==
    Reconciled =>
        /\ purchase_data = uploaded_file_purchase
        /\ gsmart_data = uploaded_file_gsmart

C10_RawNames ==
    Reconciled =>
        /\ pc = "done" =>
                reconciliation_data
                    = reconcile_data(uploaded_file_purchase, uploaded_file_gsmart)
        /\ \A row \in reconciliation_data :
                row["_merge"] # "Not in Books" =>
                    \E i \in DOMAIN uploaded_file_purchase :
                        LET b == uploaded_file_purchase[i]
                        IN  /\ KeyOf(b) = KeyOf(row)
                            /\ b.Party_Name # NaN => row.Party_Name = b.Party_Name
                            /\ b.Party_Name = NaN =>
                                    row.Party_Name \in TextNames(uploaded_file_gsmart) \cup {NaN}

\* create_pivot_summary has rewritten the name of a Book row, and the
\* reconciled row of its key still carries the name as loaded.
C10_Witness ==
    /\ pc = "done"
    /\ \E i \in DOMAIN purchase_data :
        /\ purchase_data[i].Party_Name # uploaded_file_purchase[i].Party_Name
        /\ \E row \in RowsOfKey(KeyOf(uploaded_file_purchase[i])) :
                row.Party_Name = uploaded_file_purchase[i].Party_Name
        /\ \A row \in RowsOfKey(KeyOf(uploaded_file_purchase[i])) :
                row.Party_Name # purchase_data[i].Party_Name

====
